---- MODULE Spec2Model ----
(***************************************************************************)
(* CQ14Workflow (temporal/workflows.py): the five-phase Fuzzy-to-Fact      *)
(* protocol run as a Temporal workflow.  The coordinator schedules         *)
(* activities, suspends at its awaits and writes the CQ14Result; every     *)
(* activity invocation settles once, as completed (with the value the      *)
(* activity returned) or as failed (an ActivityError, after the retry      *)
(* policy gave up).                                                        *)
(***************************************************************************)
EXTENDS Integers, Sequences, FiniteSets, TLC

\* Longest drug list find_drugs returns, longest trial list search_trials returns.
MaxDrugs == 3
MaxTrials == 2

-----------------------------------------------------------------------------
(* Python values *)

\* None in a field typed Optional[dict]; None in a field typed Optional[str].
None == [none |-> TRUE]
NoneStr == "None"

\* dict.get(key, default)
DictGet(d, key, default) == IF key \in DOMAIN d THEN d[key] ELSE default

\* bool(x) of an Optional[dict], of an Optional[str], of a list
TruthyDict(d) == d # None /\ DOMAIN d # {}
TruthyStr(s) == s # NoneStr /\ s # ""
TruthyList(l) == Len(l) > 0

\* isinstance(v, Exception) on an element of a gather() result list
ActivityError == [exception |-> "ActivityError"]
IsException(v) == "exception" \in DOMAIN v

-----------------------------------------------------------------------------
(* Inputs and result *)

CQ14Input(gene_a, gene_b, target_name, condition) ==
    [gene_a |-> gene_a, gene_b |-> gene_b,
     target_name |-> target_name, condition |-> condition]

\* The documents start_workflow sends: the defaults and one other query.
Inputs ==
    { CQ14Input("TP53", "TYMS", "thymidylate synthase", "cancer"),
      CQ14Input("BRCA1", "PARP1", "PARP1", "breast cancer") }

\* Variant: the interactions field defaults to an empty list like the others.
CQ14ResultListDefault ==
    [gene_a_resolution |-> None, gene_b_resolution |-> None,
     gene_a_protein |-> None, gene_b_protein |-> None,
     gene_b_interactions |-> <<>>,
     drugs |-> <<>>, trials |-> <<>>, validations |-> <<>>]

\* CQ14Result(): every field at its default.
CQ14Result ==
    [gene_a_resolution |-> None, gene_b_resolution |-> None,
     gene_a_protein |-> None, gene_b_protein |-> None,
     gene_b_interactions |-> None,
     drugs |-> <<>>, trials |-> <<>>, validations |-> <<>>]

-----------------------------------------------------------------------------
(* Timeout tiers *)

NON_RETRYABLE_ERRORS ==
    {"UNRESOLVED_ENTITY", "AMBIGUOUS_QUERY", "ENTITY_NOT_FOUND", "ValidationError"}

\* timedelta values in seconds
SHORT_ACTIVITY_RETRY ==
    [initial_interval |-> 2, backoff_coefficient |-> 2, maximum_interval |-> 60,
     maximum_attempts |-> 3, non_retryable_error_types |-> NON_RETRYABLE_ERRORS]

LONG_ACTIVITY_RETRY ==
    [initial_interval |-> 5, backoff_coefficient |-> 2, maximum_interval |-> 180,
     maximum_attempts |-> 5, non_retryable_error_types |-> NON_RETRYABLE_ERRORS]

\* Variant: 9 min in all for the short tier.
SHORT_ACTIVITY_CONFIG_9min ==
    [start_to_close_timeout |-> 180, schedule_to_close_timeout |-> 540,
     retry_policy |-> SHORT_ACTIVITY_RETRY]

SHORT_ACTIVITY_CONFIG ==
    [start_to_close_timeout |-> 180, schedule_to_close_timeout |-> 600,
     retry_policy |-> SHORT_ACTIVITY_RETRY]

\* Variant: 30 min in all for the long tier.
LONG_ACTIVITY_CONFIG_30min ==
    [start_to_close_timeout |-> 300, schedule_to_close_timeout |-> 1800,
     retry_policy |-> LONG_ACTIVITY_RETRY]

LONG_ACTIVITY_CONFIG ==
    [start_to_close_timeout |-> 300, schedule_to_close_timeout |-> 1200,
     retry_policy |-> LONG_ACTIVITY_RETRY]

-----------------------------------------------------------------------------
(* Activities: what each returns when it succeeds (activities.py) *)

\* The cross-reference HGNC holds for a gene symbol.
UniprotOf(gene_symbol) ==
    CASE gene_symbol = "TP53" -> "P04637"
      [] gene_symbol = "TYMS" -> "P04818"
      [] gene_symbol = "BRCA1" -> "P38398"
      [] OTHER -> "P09874"

GeneInfo(gene_symbol, uniprot_id) ==
    [hgnc_id |-> "HGNC:" \o gene_symbol, symbol |-> gene_symbol,
     name |-> gene_symbol, entrez_id |-> NoneStr,
     uniprot_id |-> uniprot_id, ensembl_id |-> NoneStr]

ProteinFunction(uniprot_id) ==
    [uniprot_id |-> uniprot_id, function_summary |-> "function of " \o uniprot_id,
     keywords |-> <<>>]

GeneInteraction(gene_symbol) ==
    [partner_gene |-> "partner of " \o gene_symbol, interaction_type |-> "genetic",
     evidence_source |-> "BioGRID", score |-> NoneStr, pubmed_id |-> NoneStr]

DrugNames == <<"fluorouracil", "pemetrexed", "raltitrexed", "capecitabine">>

DrugCandidate(k, target_name) ==
    [chembl_id |-> "CHEMBL:" \o DrugNames[((k - 1) % Len(DrugNames)) + 1],
     name |-> DrugNames[((k - 1) % Len(DrugNames)) + 1],
     target_name |-> target_name, mechanism |-> "INHIBITOR", max_phase |-> 4]

ClinicalTrial(k, drug_name, condition) ==
    [nct_id |-> IF k % 2 = 1 THEN "NCT:00461032" ELSE "NCT:01234567",
     title |-> drug_name, phase |-> "Phase 3", status |-> "Completed",
     conditions |-> <<condition>>, interventions |-> <<drug_name>>]

ValidationEvidence(claim) ==
    [claim |-> claim, verified |-> TRUE, evidence_source |-> "source",
     evidence_details |-> "details", pubmed_ids |-> <<>>]

resolve_gene(gene_symbol) ==
    { GeneInfo(gene_symbol, u) : u \in {NoneStr, "", UniprotOf(gene_symbol)} }

enrich_protein(uniprot_id) == { ProteinFunction(uniprot_id) }

expand_interactions(gene_symbol) ==
    { [interactions |-> <<GeneInteraction(gene_symbol)>>] }

find_drugs(target_name) ==
    { [k \in 1..n |-> DrugCandidate(k, target_name)] : n \in 0..MaxDrugs }

search_trials(drug_name, condition) ==
    { [k \in 1..n |-> ClinicalTrial(k, drug_name, condition)] : n \in 0..MaxTrials }

validate_gene(claim) == { ValidationEvidence(claim) }
validate_mechanism(claim) == { ValidationEvidence(claim) }
validate_trial(nct_id) == { ValidationEvidence(nct_id) }
validate_synthetic_lethality(gene_a, gene_b) ==
    { ValidationEvidence(gene_a \o "-" \o gene_b) }

\* The activity registered under a name, applied to the scheduled arguments.
ActivityReturns(name, args) ==
    CASE name = "resolve_gene" -> resolve_gene(args[1])
      [] name = "enrich_protein" -> enrich_protein(args[1])
      [] name = "expand_interactions" -> expand_interactions(args[1])
      [] name = "find_drugs" -> find_drugs(args[1])
      [] name = "search_trials" -> search_trials(args[1], args[2])
      [] name = "validate_gene" -> validate_gene(args[1])
      [] name = "validate_mechanism" -> validate_mechanism(args[1])
      [] name = "validate_trial" -> validate_trial(args[1])
      [] OTHER -> validate_synthetic_lethality(args[1], args[2])

\* The phase an activity belongs to: 1 Anchor, 2 Enrich, 3 Expand,
\* 4 Traverse-a, 5 Traverse-b, 6 Validate.
PhaseOf(name) ==
    CASE name = "resolve_gene" -> 1
      [] name = "enrich_protein" -> 2
      [] name = "expand_interactions" -> 3
      [] name = "find_drugs" -> 4
      [] name = "search_trials" -> 5
      [] OTHER -> 6

-----------------------------------------------------------------------------
(* State *)

VARIABLES
    input_data,   \* CQ14Input(**json.loads(input_json))
    result,       \* the CQ14Result the run fills
    pc,           \* where CQ14Workflow.run stands
    activities,   \* every invocation scheduled so far, in schedule order
    tasks,        \* the awaitables of the pending await: indices into activities
    returned,     \* what run returned, None before
    raised,       \* the exception that left run, None if none
    invocations,  \* the retry state of the invocations of one fan-out, when
                  \* their attempts are followed one by one (RetrySpec)
    agent_runs,   \* the calls of AgentRunner.run under way or over (AgentSpec)
    mcp_clients,  \* the MCPServerStdio clients created so far (AgentSpec)
    clock         \* seconds since the start of run: when the pending await's
                  \* invocations were scheduled, and the latest close so far
                  \* (TimedSpec)

vars == <<input_data, result, pc, activities, tasks, returned, raised, invocations,
         agent_runs, mcp_clients, clock>>

\* workflow.execute_activity(name, args=[...], **config): a new invocation.
execute_activity(name, args, config) ==
    [name |-> name, args |-> args, config |-> config,
     status |-> "running", value |-> None]

Settled(a) == a.status # "running"

Init ==
    /\ input_data \in Inputs
    /\ result = CQ14Result
    /\ pc = "anchor"
    /\ activities = <<>>
    /\ tasks = <<>>
    /\ returned = None
    /\ raised = None
    /\ invocations = <<>>
    /\ agent_runs = <<>>
    /\ mcp_clients = <<>>
    /\ clock = [scheduled |-> 0, now |-> 0]

-----------------------------------------------------------------------------
(* Activity invocations settle *)

\* An attempt of invocation i returns: the invocation completes with that value.
ActivityCompletes(i) ==
    /\ activities[i].status = "running"
    /\ \E v \in ActivityReturns(activities[i].name, activities[i].args) :
          activities' = [activities EXCEPT ![i].status = "completed", ![i].value = v]
    /\ UNCHANGED <<clock, agent_runs, mcp_clients, invocations, input_data, result, pc, tasks, returned, raised>>

\* The retry policy or the total budget gives up: the invocation fails for good.
ActivityFails(i) ==
    /\ activities[i].status = "running"
    /\ activities' = [activities EXCEPT ![i].status = "failed", ![i].value = ActivityError]
    /\ UNCHANGED <<clock, agent_runs, mcp_clients, invocations, input_data, result, pc, tasks, returned, raised>>

-----------------------------------------------------------------------------
(* asyncio.gather and try/except *)

\* Variant: gather called with its default, return_exceptions=False.
return_exceptions_default == FALSE

\* The return_exceptions argument the three gather calls of run pass.
return_exceptions == TRUE

\* Variant: the awaiter resumes on the first settled awaitable, as with
\* asyncio.wait(..., return_when=FIRST_COMPLETED).
GatherDoneFirst(ts, flag) ==
    \E k \in DOMAIN ts : Settled(activities[ts[k]])

\* Variant: the awaiter resumes only when every awaitable has a value.
GatherDoneCompleted(ts, flag) ==
    \A k \in DOMAIN ts : activities[ts[k]].status = "completed"

\* gather(*ts, return_exceptions=flag) has a result for its awaiter: with the
\* flag every awaitable has settled; without it also once one has failed.
GatherDone(ts, flag) ==
    \/ \A k \in DOMAIN ts : Settled(activities[ts[k]])
    \/ ~flag /\ \E k \in DOMAIN ts : activities[ts[k]].status = "failed"

\* Without the flag the first failure is raised in the awaiter.
GatherRaises(ts, flag) ==
    ~flag /\ \E k \in DOMAIN ts : activities[ts[k]].status = "failed"

\* Variant: the results in the order of asyncio.as_completed when the calls
\* that return end before the calls that fail: no longer by position.
GatherResultsAsCompleted(ts) ==
    LET values == [k \in DOMAIN ts |-> activities[ts[k]].value]
    IN SelectSeq(values, LAMBDA v : ~IsException(v))
         \o SelectSeq(values, LAMBDA v : IsException(v))

\* The list gather returns: per position the value or the exception object.
GatherResults(ts) == [k \in DOMAIN ts |-> activities[ts[k]].value]

\* "except <clause>" catches exc: ActivityError derives from Exception.
Catches(clause, exc) == clause = "Exception" \/ clause = exc.exception

\* Variant: a handler for timeouts only.
ExceptClauseTimeout == "TimeoutError"

\* The clause of the three try blocks around the single awaits.
ExceptClause == "Exception"

-----------------------------------------------------------------------------
(* The pure parts of CQ14Workflow.run *)

Min(a, b) == IF a < b THEN a ELSE b

\* l[:n]
Slice(l, n) == SubSeq(l, 1, Min(n, Len(l)))

\* Phase 1: the two resolve_gene calls.
AnchorTasks(inp) ==
    << execute_activity("resolve_gene", <<inp.gene_a>>, "SHORT_ACTIVITY_CONFIG"),
       execute_activity("resolve_gene", <<inp.gene_b>>, "SHORT_ACTIVITY_CONFIG") >>

\* Variant: the isinstance checks left out.
AnchorAssignUnchecked(res, gene_results) ==
    [res EXCEPT !.gene_a_resolution = gene_results[1],
                !.gene_b_resolution = gene_results[2]]

\* Variant: the two positions of gene_results mixed up.
AnchorAssignSwapped(res, gene_results) ==
    [res EXCEPT
       !.gene_a_resolution =
           IF ~IsException(gene_results[2]) THEN gene_results[2] ELSE @,
       !.gene_b_resolution =
           IF ~IsException(gene_results[1]) THEN gene_results[1] ELSE @]

\* Phase 1: gene_results into the result.
AnchorAssign(res, gene_results) ==
    [res EXCEPT
       !.gene_a_resolution =
           IF ~IsException(gene_results[1]) THEN gene_results[1] ELSE @,
       !.gene_b_resolution =
           IF ~IsException(gene_results[2]) THEN gene_results[2] ELSE @]

\* Variant: the key is looked for, not its value.
HasUniprotKey(resolution) ==
    TruthyDict(resolution) /\ "uniprot_id" \in DOMAIN resolution

\* "result.gene_x_resolution and result.gene_x_resolution.get('uniprot_id')"
HasUniprot(resolution) ==
    TruthyDict(resolution) /\ TruthyStr(DictGet(resolution, "uniprot_id", NoneStr))

\* Phase 2: enrich_tasks, appended in the order gene A, gene B.
EnrichTasks(res) ==
    (IF HasUniprot(res.gene_a_resolution)
       THEN << execute_activity("enrich_protein",
                                <<res.gene_a_resolution["uniprot_id"]>>,
                                "SHORT_ACTIVITY_CONFIG") >>
       ELSE <<>>)
    \o
    (IF HasUniprot(res.gene_b_resolution)
       THEN << execute_activity("enrich_protein",
                                <<res.gene_b_resolution["uniprot_id"]>>,
                                "SHORT_ACTIVITY_CONFIG") >>
       ELSE <<>>)

\* Variant: the isinstance checks of the Enrich fan-in left out.
EnrichAssignUnchecked(res, enrich_results) ==
    [res EXCEPT
       !.gene_a_protein =
           IF Len(enrich_results) > 0 THEN enrich_results[1] ELSE @,
       !.gene_b_protein =
           IF Len(enrich_results) > 1 THEN enrich_results[2] ELSE @]

\* Variant: the proteins stored under the names of the resolutions.
EnrichAssignOverResolution(res, enrich_results) ==
    [res EXCEPT
       !.gene_a_resolution =
           IF Len(enrich_results) > 0 /\ ~IsException(enrich_results[1])
             THEN enrich_results[1] ELSE @,
       !.gene_b_resolution =
           IF Len(enrich_results) > 1 /\ ~IsException(enrich_results[2])
             THEN enrich_results[2] ELSE @]

\* Phase 2: enrich_results into the result, by position in the list.
EnrichAssign(res, enrich_results) ==
    [res EXCEPT
       !.gene_a_protein =
           IF Len(enrich_results) > 0 /\ ~IsException(enrich_results[1])
             THEN enrich_results[1] ELSE @,
       !.gene_b_protein =
           IF Len(enrich_results) > 1 /\ ~IsException(enrich_results[2])
             THEN enrich_results[2] ELSE @]

\* Variant: the search is always made for the target.
drug_name_target(res, inp) == inp.target_name

\* Phase 4b: the query of the trial search.
drug_name(res, inp) ==
    IF TruthyList(res.drugs)
      THEN DictGet(res.drugs[1], "name", inp.target_name)
      ELSE inp.target_name

\* Phase 5: the claim strings.
GeneClaim(gene, resolution) ==
    gene \o ": HGNC=" \o DictGet(resolution, "hgnc_id", NoneStr)
         \o ", Entrez=" \o DictGet(resolution, "entrez_id", "N/A")

DrugClaim(drug) ==
    DictGet(drug, "chembl_id", NoneStr) \o " - " \o DictGet(drug, "name", NoneStr)
      \o ", target=" \o DictGet(drug, "target_name", NoneStr)
      \o ", mechanism=" \o DictGet(drug, "mechanism", NoneStr)

\* Variant: a gene is validated only if its resolution has a uniprot_id.
GeneValidationTasksIfUniprot(gene, resolution) ==
    IF HasUniprot(resolution)
      THEN << execute_activity("validate_gene", <<GeneClaim(gene, resolution)>>,
                               "SHORT_ACTIVITY_CONFIG") >>
      ELSE <<>>

\* Phase 5: the validate_gene task of one gene, if its resolution is there.
GeneValidationTasks(gene, resolution) ==
    IF TruthyDict(resolution)
      THEN << execute_activity("validate_gene", <<GeneClaim(gene, resolution)>>,
                               "SHORT_ACTIVITY_CONFIG") >>
      ELSE <<>>

\* Variant: every drug found is validated, the [:2] left out.
DrugValidationTasksAll(drugs) ==
    [k \in 1..Len(drugs) |->
       execute_activity("validate_mechanism", <<DrugClaim(drugs[k])>>,
                        "SHORT_ACTIVITY_CONFIG")]

\* Variant: only the first drug is validated, "result.drugs[:1]".
DrugValidationTasksFirst(drugs) ==
    [k \in 1..Len(Slice(drugs, 1)) |->
       execute_activity("validate_mechanism", <<DrugClaim(drugs[k])>>,
                        "SHORT_ACTIVITY_CONFIG")]

\* Phase 5: "for drug in result.drugs[:2]"
DrugValidationTasks(drugs) ==
    [k \in 1..Len(Slice(drugs, 2)) |->
       execute_activity("validate_mechanism", <<DrugClaim(drugs[k])>>,
                        "SHORT_ACTIVITY_CONFIG")]

\* Variant: the last trial of the list is validated, "result.trials[-1]".
TrialValidationTasksLast(trials) ==
    IF TruthyList(trials)
      THEN << execute_activity("validate_trial",
                               <<DictGet(trials[Len(trials)], "nct_id", "")>>,
                               "SHORT_ACTIVITY_CONFIG") >>
      ELSE <<>>

\* Phase 5: the validate_trial task of the first trial.
TrialValidationTasks(trials) ==
    IF TruthyList(trials)
      THEN << execute_activity("validate_trial",
                               <<DictGet(trials[1], "nct_id", "")>>,
                               "SHORT_ACTIVITY_CONFIG") >>
      ELSE <<>>

\* Variant: the headline claim is validated only for two resolved genes.
SyntheticLethalityTasksIfResolved(res, inp) ==
    IF TruthyDict(res.gene_a_resolution) /\ TruthyDict(res.gene_b_resolution)
      THEN << execute_activity("validate_synthetic_lethality",
                               <<inp.gene_a, inp.gene_b>>, "SHORT_ACTIVITY_CONFIG") >>
      ELSE <<>>

\* Phase 5: the validate_synthetic_lethality task, appended unconditionally.
SyntheticLethalityTasks(res, inp) ==
    << execute_activity("validate_synthetic_lethality",
                        <<inp.gene_a, inp.gene_b>>, "SHORT_ACTIVITY_CONFIG") >>

\* Phase 5: validation_tasks, in the order they are appended.
ValidationTasks(res, inp) ==
    GeneValidationTasks(inp.gene_a, res.gene_a_resolution)
      \o GeneValidationTasks(inp.gene_b, res.gene_b_resolution)
      \o DrugValidationTasks(res.drugs)
      \o TrialValidationTasks(res.trials)
      \o SyntheticLethalityTasks(res, inp)

\* Variant: the gather results taken over unfiltered.
FilterValidationsKeepAll(validation_results) == validation_results

\* [v for v in validation_results if not isinstance(v, Exception)]
FilterValidations(validation_results) ==
    SelectSeq(validation_results, LAMBDA v : ~IsException(v))

-----------------------------------------------------------------------------
(* json.dumps(asdict(result)): the document as a tree of JSON values *)

JsonNull == [json |-> "null"]
JsonObject(d) == [json |-> "object", members |-> d]
JsonArray(l) == [json |-> "array", items |-> l]

ListFields == {"drugs", "trials", "validations"}

\* Variant: the lists written last element first.
json_dumps_reversed(d) ==
    [key \in DOMAIN d |->
       IF key \in ListFields
         THEN LET l == d[key]
              IN JsonArray([k \in 1..Len(l) |-> l[Len(l) + 1 - k]])
       ELSE IF d[key] = None THEN JsonNull
       ELSE JsonObject(d[key])]

\* Variant: fields that are None are left out of the document.
json_dumps_skip_none(d) ==
    [key \in {f \in DOMAIN d : f \in ListFields \/ d[f] # None} |->
       IF key \in ListFields THEN JsonArray(d[key])
       ELSE JsonObject(d[key])]

json_dumps(d) ==
    [key \in DOMAIN d |->
       IF key \in ListFields THEN JsonArray(d[key])
       ELSE IF d[key] = None THEN JsonNull
       ELSE JsonObject(d[key])]

\* json.loads of a document: null is None, an array a list, an object a dict.
json_loads(doc) ==
    [key \in DOMAIN doc |->
       IF doc[key].json = "null" THEN None
       ELSE IF doc[key].json = "array" THEN doc[key].items
       ELSE doc[key].members]

-----------------------------------------------------------------------------
(* CQ14Workflow.run, one action per stretch of code between two awaits *)

\* The indices the invocations of `new` get when appended to activities.
Handles(new) == [k \in DOMAIN new |-> Len(activities) + k]

\* An exception leaves run: the workflow fails, nothing is returned.
Raise(exc) ==
    /\ pc' = "failed"
    /\ raised' = exc
    /\ UNCHANGED <<result, returned>>

\* "try: result.<field> = await <the one task>; except Exception: warning",
\* then on to the code at `next`.
TryAwait(fld, next) ==
    LET a == activities[tasks[1]] IN
    /\ Settled(a)
    /\ IF a.status = "completed"
         THEN /\ result' = [result EXCEPT ![fld] = a.value]
              /\ pc' = next
              /\ UNCHANGED <<returned, raised>>
         ELSE IF Catches(ExceptClause, a.value)
                THEN /\ pc' = next
                     /\ UNCHANGED <<result, returned, raised>>
                ELSE Raise(a.value)
    /\ tasks' = <<>>
    /\ UNCHANGED <<clock, agent_runs, mcp_clients, invocations, input_data, activities>>

\* Phase 1: both resolve_gene calls are scheduled, then gather is awaited.
AnchorSchedule ==
    /\ pc = "anchor"
    /\ activities' = activities \o AnchorTasks(input_data)
    /\ tasks' = Handles(AnchorTasks(input_data))
    /\ pc' = "anchor_gather"
    /\ UNCHANGED <<clock, agent_runs, mcp_clients, invocations, input_data, result, returned, raised>>

AnchorGather ==
    /\ pc = "anchor_gather"
    /\ GatherDone(tasks, return_exceptions)
    /\ IF GatherRaises(tasks, return_exceptions)
         THEN Raise(ActivityError)
         ELSE /\ result' = AnchorAssign(result, GatherResults(tasks))
              /\ pc' = "enrich"
              /\ UNCHANGED <<returned, raised>>
    /\ tasks' = <<>>
    /\ UNCHANGED <<clock, agent_runs, mcp_clients, invocations, input_data, activities>>

\* Phase 2: with no enrich task there is no await and run goes on to phase 3.
EnrichSchedule ==
    /\ pc = "enrich"
    /\ activities' = activities \o EnrichTasks(result)
    /\ tasks' = Handles(EnrichTasks(result))
    /\ pc' = IF Len(EnrichTasks(result)) > 0 THEN "enrich_gather" ELSE "expand"
    /\ UNCHANGED <<clock, agent_runs, mcp_clients, invocations, input_data, result, returned, raised>>

EnrichGather ==
    /\ pc = "enrich_gather"
    /\ GatherDone(tasks, return_exceptions)
    /\ IF GatherRaises(tasks, return_exceptions)
         THEN Raise(ActivityError)
         ELSE /\ result' = EnrichAssign(result, GatherResults(tasks))
              /\ pc' = "expand"
              /\ UNCHANGED <<returned, raised>>
    /\ tasks' = <<>>
    /\ UNCHANGED <<clock, agent_runs, mcp_clients, invocations, input_data, activities>>

\* Phase 3
ExpandSchedule ==
    /\ pc = "expand"
    /\ LET new == << execute_activity("expand_interactions", <<input_data.gene_b>>,
                                      "LONG_ACTIVITY_CONFIG") >>
       IN /\ activities' = activities \o new
          /\ tasks' = Handles(new)
    /\ pc' = "expand_await"
    /\ UNCHANGED <<clock, agent_runs, mcp_clients, invocations, input_data, result, returned, raised>>

ExpandAwait ==
    /\ pc = "expand_await"
    /\ TryAwait("gene_b_interactions", "drugs")

\* Variant: the drug search scheduled with the tier of the lookups.
DrugsScheduleShort ==
    /\ pc = "drugs"
    /\ LET new == << execute_activity("find_drugs", <<input_data.target_name>>,
                                      "SHORT_ACTIVITY_CONFIG") >>
       IN /\ activities' = activities \o new
          /\ tasks' = Handles(new)
    /\ pc' = "drugs_await"
    /\ UNCHANGED <<clock, agent_runs, mcp_clients, invocations, input_data, result, returned, raised>>

\* Phase 4a
DrugsSchedule ==
    /\ pc = "drugs"
    /\ LET new == << execute_activity("find_drugs", <<input_data.target_name>>,
                                      "LONG_ACTIVITY_CONFIG") >>
       IN /\ activities' = activities \o new
          /\ tasks' = Handles(new)
    /\ pc' = "drugs_await"
    /\ UNCHANGED <<clock, agent_runs, mcp_clients, invocations, input_data, result, returned, raised>>

DrugsAwait ==
    /\ pc = "drugs_await"
    /\ TryAwait("drugs", "trials")

\* Variant: without drugs the trial search is skipped.
TrialsScheduleIfDrugs ==
    /\ pc = "trials"
    /\ LET new == IF TruthyList(result.drugs)
                    THEN << execute_activity("search_trials",
                                             <<drug_name(result, input_data),
                                               input_data.condition>>,
                                             "LONG_ACTIVITY_CONFIG") >>
                    ELSE <<>>
       IN /\ activities' = activities \o new
          /\ tasks' = Handles(new)
          /\ pc' = IF Len(new) > 0 THEN "trials_await" ELSE "validate"
    /\ UNCHANGED <<clock, agent_runs, mcp_clients, invocations, input_data, result, returned, raised>>

\* Phase 4b
TrialsSchedule ==
    /\ pc = "trials"
    /\ LET new == << execute_activity("search_trials",
                                      <<drug_name(result, input_data),
                                        input_data.condition>>,
                                      "LONG_ACTIVITY_CONFIG") >>
       IN /\ activities' = activities \o new
          /\ tasks' = Handles(new)
    /\ pc' = "trials_await"
    /\ UNCHANGED <<clock, agent_runs, mcp_clients, invocations, input_data, result, returned, raised>>

TrialsAwait ==
    /\ pc = "trials_await"
    /\ TryAwait("trials", "validate")

\* Phase 5: fan-out, fan-in, and the return of the serialized result.
ValidateSchedule ==
    /\ pc = "validate"
    /\ activities' = activities \o ValidationTasks(result, input_data)
    /\ tasks' = Handles(ValidationTasks(result, input_data))
    /\ pc' = "validate_gather"
    /\ UNCHANGED <<clock, agent_runs, mcp_clients, invocations, input_data, result, returned, raised>>

ValidateGather ==
    /\ pc = "validate_gather"
    /\ GatherDone(tasks, return_exceptions)
    /\ IF GatherRaises(tasks, return_exceptions)
         THEN Raise(ActivityError)
         ELSE LET final ==
                    [result EXCEPT
                       !.validations = FilterValidations(GatherResults(tasks))]
              IN /\ result' = final
                 /\ returned' = json_dumps(final)
                 /\ pc' = "done"
                 /\ UNCHANGED raised
    /\ tasks' = <<>>
    /\ UNCHANGED <<clock, agent_runs, mcp_clients, invocations, input_data, activities>>

Coordinator ==
    \/ AnchorSchedule \/ AnchorGather
    \/ EnrichSchedule \/ EnrichGather
    \/ ExpandSchedule \/ ExpandAwait
    \/ DrugsSchedule \/ DrugsAwait
    \/ TrialsSchedule \/ TrialsAwait
    \/ ValidateSchedule \/ ValidateGather

Environment ==
    \E i \in DOMAIN activities : ActivityCompletes(i) \/ ActivityFails(i)

Next == Coordinator \/ Environment

Spec == Init /\ [][Next]_vars

\* Temporal dispatches every ready workflow task, and every activity attempt
\* ends (it returns, raises or runs into its timeout).
FairSpec == Spec /\ WF_vars(Coordinator) /\ WF_vars(Environment)

-----------------------------------------------------------------------------
(* One fan-out followed attempt by attempt: what the retry_policy and the two *)
(* timeouts passed to execute_activity make Temporal do with an invocation   *)

\* How long an attempt that ends by itself runs, in seconds: a quick one, and
\* a slow one that ends SlowMargin before its start_to_close_timeout.
QuickSeconds == 30
SlowMargin == 60

\* **SHORT_ACTIVITY_CONFIG / **LONG_ACTIVITY_CONFIG: the tier behind the name.
ActivityConfig(config) ==
    IF config = "SHORT_ACTIVITY_CONFIG" THEN SHORT_ACTIVITY_CONFIG
    ELSE LONG_ACTIVITY_CONFIG

\* What an attempt can raise: the four ADR-001 codes and transient errors.
ErrorTypes == NON_RETRYABLE_ERRORS \cup {"ConnectionError", "RateLimitError"}

RECURSIVE Pow(_, _)
Pow(b, e) == IF e = 0 THEN 1 ELSE b * Pow(b, e - 1)

\* Variant: the interval grows by initial_interval per attempt.
BackoffIntervalLinear(policy, attempt) ==
    Min(policy.maximum_interval, policy.initial_interval * attempt)

\* Variant: backoff_coefficient 1.0, every interval the initial one.
BackoffIntervalConstant(policy, attempt) ==
    Min(policy.maximum_interval, policy.initial_interval)

\* The interval slept after the failure of attempt number `attempt`:
\* initial_interval * backoff_coefficient^(attempt - 1), capped.
BackoffInterval(policy, attempt) ==
    Min(policy.maximum_interval,
        policy.initial_interval * Pow(policy.backoff_coefficient, attempt - 1))

\* Variant: a timed-out attempt is not retried.
IsRetryableNoTimeout(policy, error) ==
    error \notin policy.non_retryable_error_types /\ error # "TimeoutError"

\* Variant: no error type ends the invocation.
IsRetryableAlways(policy, error) == TRUE

\* non_retryable_error_types: the error types that end the invocation.
IsRetryable(policy, error) == error \notin policy.non_retryable_error_types

\* Variant: maximum_attempts not set (unlimited).
RetryDecisionUnlimited(config, attempt, error, elapsed) ==
    LET tier == ActivityConfig(config)
        policy == tier.retry_policy
    IN IF ~IsRetryable(policy, error) THEN "Stop"
       ELSE IF elapsed + BackoffInterval(policy, attempt)
                  > tier.schedule_to_close_timeout THEN "Stop"
       ELSE "Retry"

\* Variant: schedule_to_close_timeout not looked at when retrying.
RetryDecisionNoBudget(config, attempt, error, elapsed) ==
    LET tier == ActivityConfig(config)
        policy == tier.retry_policy
    IN IF ~IsRetryable(policy, error) THEN "Stop"
       ELSE IF attempt >= policy.maximum_attempts THEN "Stop"
       ELSE "Retry"

\* After attempt number `attempt` failed with `error`, `elapsed` seconds after
\* the invocation was scheduled: retry, or stop because the error type is
\* non-retryable, the attempts are used up, or the next attempt would start
\* after the schedule_to_close_timeout.
RetryDecision(config, attempt, error, elapsed) ==
    LET tier == ActivityConfig(config)
        policy == tier.retry_policy
    IN IF ~IsRetryable(policy, error) THEN "Stop"
       ELSE IF attempt >= policy.maximum_attempts THEN "Stop"
       ELSE IF elapsed + BackoffInterval(policy, attempt)
                  > tier.schedule_to_close_timeout THEN "Stop"
       ELSE "Retry"

\* The call an attempt executes.
Execution(inv) == [name |-> inv.name, args |-> inv.args]

\* A scheduled invocation with its first attempt started.
Invocation(a) ==
    [name |-> a.name, args |-> a.args, config |-> a.config,
     state |-> "running",   \* running, backoff, completed or failed
     attempt |-> 1,         \* the number of the current (or last) attempt
     elapsed |-> 0,         \* seconds since scheduling, at the last event
     ran |-> 0,             \* seconds the last ended attempt ran
     failure |-> "",        \* the error of the last failed attempt
     slept |-> <<>>,        \* the backoff intervals slept
     runs |-> <<[name |-> a.name, args |-> a.args]>>]  \* the calls executed

\* The durations of an attempt that ends before its start_to_close_timeout.
Durations(tier) == {QuickSeconds, tier.start_to_close_timeout - SlowMargin}

\* The attempt of inv fails with error after d seconds.
AttemptFailure(inv, d, error) ==
    [inv EXCEPT
       !.elapsed = inv.elapsed + d,
       !.ran = d,
       !.failure = error,
       !.state = IF RetryDecision(inv.config, inv.attempt, error, inv.elapsed + d)
                      = "Retry"
                   THEN "backoff" ELSE "failed"]

workflow_vars == <<input_data, result, pc, activities, tasks, returned, raised>>

\* The fan-outs followed: the Anchor pair (SHORT) and the drug search (LONG).
RetryInit ==
    /\ input_data \in Inputs
    /\ result = CQ14Result
    /\ pc = "anchor"
    /\ activities = <<>>
    /\ tasks = <<>>
    /\ returned = None
    /\ raised = None
    /\ agent_runs = <<>>
    /\ mcp_clients = <<>>
    /\ clock = [scheduled |-> 0, now |-> 0]
    /\ \E fanout \in
          { AnchorTasks(input_data),
            << execute_activity("find_drugs", <<input_data.target_name>>,
                                "LONG_ACTIVITY_CONFIG") >> } :
          invocations = [k \in DOMAIN fanout |-> Invocation(fanout[k])]

\* The running attempt of invocation k returns in time.
AttemptReturns(k) ==
    LET inv == invocations[k]
        tier == ActivityConfig(inv.config)
    IN /\ inv.state = "running"
       /\ \E d \in Durations(tier) :
             /\ inv.elapsed + d < tier.schedule_to_close_timeout
             /\ invocations' = [invocations EXCEPT
                                  ![k] = [inv EXCEPT !.state = "completed",
                                                     !.elapsed = inv.elapsed + d,
                                                     !.ran = d]]
       /\ UNCHANGED <<clock, workflow_vars, agent_runs, mcp_clients>>

\* The running attempt of invocation k raises.
AttemptRaises(k) ==
    LET inv == invocations[k]
        tier == ActivityConfig(inv.config)
    IN /\ inv.state = "running"
       /\ \E d \in Durations(tier), error \in ErrorTypes :
             /\ inv.elapsed + d < tier.schedule_to_close_timeout
             /\ invocations' = [invocations EXCEPT ![k] = AttemptFailure(inv, d, error)]
       /\ UNCHANGED <<clock, workflow_vars, agent_runs, mcp_clients>>

\* The running attempt of invocation k runs into its start_to_close_timeout.
AttemptTimesOut(k) ==
    LET inv == invocations[k]
        tier == ActivityConfig(inv.config)
    IN /\ inv.state = "running"
       /\ inv.elapsed + tier.start_to_close_timeout < tier.schedule_to_close_timeout
       /\ invocations' = [invocations EXCEPT
                            ![k] = AttemptFailure(inv, tier.start_to_close_timeout,
                                                  "TimeoutError")]
       /\ UNCHANGED <<clock, workflow_vars, agent_runs, mcp_clients>>

\* Invocation k runs into its schedule_to_close_timeout while an attempt runs.
BudgetExpires(k) ==
    LET inv == invocations[k]
        tier == ActivityConfig(inv.config)
    IN /\ inv.state = "running"
       /\ inv.elapsed + tier.start_to_close_timeout >= tier.schedule_to_close_timeout
       /\ invocations' = [invocations EXCEPT
                            ![k] = [inv EXCEPT
                                      !.state = "failed",
                                      !.failure = "ScheduleToCloseTimeout",
                                      !.ran = tier.schedule_to_close_timeout - inv.elapsed,
                                      !.elapsed = tier.schedule_to_close_timeout]]
       /\ UNCHANGED <<clock, workflow_vars, agent_runs, mcp_clients>>

\* Variant: a retry executes the call of the first invocation of the fan-out.
RetryStartsFirst(k) ==
    LET inv == invocations[k]
        delay == BackoffInterval(ActivityConfig(inv.config).retry_policy, inv.attempt)
    IN /\ inv.state = "backoff"
       /\ invocations' = [invocations EXCEPT
                            ![k] = [inv EXCEPT
                                      !.state = "running",
                                      !.attempt = inv.attempt + 1,
                                      !.elapsed = inv.elapsed + delay,
                                      !.slept = Append(inv.slept, delay),
                                      !.runs = Append(inv.runs, Execution(invocations[1]))]]
       /\ UNCHANGED <<clock, workflow_vars, agent_runs, mcp_clients>>

\* The backoff of invocation k is over: the next attempt executes the same call.
RetryStarts(k) ==
    LET inv == invocations[k]
        delay == BackoffInterval(ActivityConfig(inv.config).retry_policy, inv.attempt)
    IN /\ inv.state = "backoff"
       /\ invocations' = [invocations EXCEPT
                            ![k] = [inv EXCEPT
                                      !.state = "running",
                                      !.attempt = inv.attempt + 1,
                                      !.elapsed = inv.elapsed + delay,
                                      !.slept = Append(inv.slept, delay),
                                      !.runs = Append(inv.runs, Execution(inv))]]
       /\ UNCHANGED <<clock, workflow_vars, agent_runs, mcp_clients>>

RetryNext ==
    \E k \in DOMAIN invocations :
       \/ AttemptReturns(k)
       \/ AttemptRaises(k)
       \/ AttemptTimesOut(k)
       \/ BudgetExpires(k)
       \/ RetryStarts(k)

RetrySpec == RetryInit /\ [][RetryNext]_vars

-----------------------------------------------------------------------------
(* AgentRunner.run: what every activity does with the MCP gateway *)

\* The calls of AgentRunner.run followed, concurrent or one after the other.
MaxRuns == 3

\* create_mcp_client(): a new MCPServerStdio, its subprocess not yet started.
create_mcp_client == [state |-> "created"]

\* A call of AgentRunner.run that has just begun.
AgentRun == [pc |-> "create", mcp |-> 0, outcome |-> ""]

AgentInit ==
    /\ input_data \in Inputs
    /\ result = CQ14Result
    /\ pc = "anchor"
    /\ activities = <<>>
    /\ tasks = <<>>
    /\ returned = None
    /\ raised = None
    /\ invocations = <<>>
    /\ agent_runs = <<>>
    /\ mcp_clients = <<>>
    /\ clock = [scheduled |-> 0, now |-> 0]

\* An activity calls runner.run(prompt), whatever other calls are under way.
RunCalled ==
    /\ Len(agent_runs) < MaxRuns
    /\ agent_runs' = Append(agent_runs, AgentRun)
    /\ UNCHANGED <<clock, workflow_vars, invocations, mcp_clients>>

\* Variant: one client made at the first call and used by every call.
CreateClientShared(c) ==
    /\ agent_runs[c].pc = "create"
    /\ IF Len(mcp_clients) = 0
         THEN /\ mcp_clients' = Append(mcp_clients, create_mcp_client)
              /\ agent_runs' = [agent_runs EXCEPT ![c].mcp = 1, ![c].pc = "enter"]
         ELSE /\ mcp_clients' = mcp_clients
              /\ agent_runs' = [agent_runs EXCEPT ![c].mcp = 1, ![c].pc = "enter"]
    /\ UNCHANGED <<clock, workflow_vars, invocations>>

\* "mcp = create_mcp_client()": a local of this call.
CreateClient(c) ==
    /\ agent_runs[c].pc = "create"
    /\ mcp_clients' = Append(mcp_clients, create_mcp_client)
    /\ agent_runs' = [agent_runs EXCEPT ![c].mcp = Len(mcp_clients) + 1,
                                        ![c].pc = "enter"]
    /\ UNCHANGED <<clock, workflow_vars, invocations>>

\* "async with mcp:" on the way in: the gateway subprocess starts and the
\* client is open, or it does not start and the exception leaves run.
EnterClient(c) ==
    /\ agent_runs[c].pc = "enter"
    /\ \/ /\ mcp_clients' = [mcp_clients EXCEPT ![agent_runs[c].mcp].state = "open"]
          /\ agent_runs' = [agent_runs EXCEPT ![c].pc = "agent"]
       \/ /\ mcp_clients' = [mcp_clients EXCEPT ![agent_runs[c].mcp].state = "closed"]
          /\ agent_runs' = [agent_runs EXCEPT ![c].pc = "raised",
                                              ![c].outcome = "exception"]
    /\ UNCHANGED <<clock, workflow_vars, invocations>>

\* The body of the with block: Agent(..., toolsets=[mcp]) and agent.run, which
\* gives the output or raises.
AgentRuns(c) ==
    /\ agent_runs[c].pc = "agent"
    /\ \E outcome \in {"output", "exception"} :
          agent_runs' = [agent_runs EXCEPT ![c].pc = "exit", ![c].outcome = outcome]
    /\ UNCHANGED <<clock, workflow_vars, invocations, mcp_clients>>

\* "async with mcp:" on the way out, by return or by exception: the client is
\* closed, then run returns the output or the exception goes on.
ExitClient(c) ==
    /\ agent_runs[c].pc = "exit"
    /\ mcp_clients' = [mcp_clients EXCEPT ![agent_runs[c].mcp].state = "closed"]
    /\ agent_runs' = [agent_runs EXCEPT
                        ![c].pc = IF agent_runs[c].outcome = "output"
                                    THEN "returned" ELSE "raised"]
    /\ UNCHANGED <<clock, workflow_vars, invocations>>

AgentNext ==
    \/ RunCalled
    \/ \E c \in DOMAIN agent_runs :
          \/ CreateClient(c)
          \/ EnterClient(c)
          \/ AgentRuns(c)
          \/ ExitClient(c)

AgentSpec == AgentInit /\ [][AgentNext]_vars

-----------------------------------------------------------------------------
(* CQ14Orchestrator.run: the same protocol without Temporal, one agent call *)
(* after the other; its state is kept in input_data (gene_a, gene_b), result *)
(* (self.result), pc, activities (the agent calls made), returned and raised *)

\* agents/cq14.py CQ14Result(): every field at its default.
OrchestratorResult ==
    [gene_a |-> None, gene_b |-> None,
     gene_a_function |-> None, gene_b_function |-> None,
     interactions |-> <<>>,
     drugs |-> <<>>, trials |-> <<>>, validations |-> <<>>]

\* What an agent function returns: expand_interactions gives the list itself,
\* search_trials is called with its default condition, validate_drug is the
\* agent behind the validate_mechanism activity.
AgentReturns(name, args) ==
    CASE name = "expand_interactions" ->
            { v.interactions : v \in expand_interactions(args[1]) }
      [] name = "search_trials" -> search_trials(args[1], "cancer")
      [] name = "validate_drug" -> validate_mechanism(args[1])
      [] OTHER -> ActivityReturns(name, args)

\* "thymidylate synthase" if self.gene_b == "TYMS" else self.gene_b
OrchestratorTarget(inp) ==
    IF inp.gene_b = "TYMS" THEN "thymidylate synthase" ELSE inp.gene_b

\* f"{drug.name} ({drug.chembl_id}) targets {drug.target_name}"
OrchestratorDrugClaim(drug) ==
    drug.name \o " (" \o drug.chembl_id \o ") targets " \o drug.target_name

\* The record of an agent call that is over.
AgentCall(name, args, status, value) ==
    [name |-> name, args |-> args, config |-> "NONE",
     status |-> status, value |-> value]

OrchestratorInit ==
    /\ input_data \in Inputs
    /\ result = OrchestratorResult
    /\ pc = "phase1_anchor"
    /\ activities = <<>>
    /\ tasks = <<>>
    /\ returned = None
    /\ raised = None
    /\ invocations = <<>>
    /\ agent_runs = <<>>
    /\ mcp_clients = <<>>
    /\ clock = [scheduled |-> 0, now |-> 0]

\* "self.result.<fld> = await <agent>(*args)" (append for validations): the
\* call returns and the value is kept, or it raises and the exception leaves
\* the phase method and run, which have no handler.
OrchestratorAwait(name, args, fld, next) ==
    /\ \/ \E v \in AgentReturns(name, args) :
             /\ activities' = Append(activities, AgentCall(name, args, "completed", v))
             /\ result' = [result EXCEPT
                             ![fld] = IF fld = "validations" THEN Append(@, v) ELSE v]
             /\ pc' = next
             /\ UNCHANGED raised
       \/ /\ activities' = Append(activities, AgentCall(name, args, "failed", ActivityError))
          /\ pc' = "failed"
          /\ raised' = ActivityError
          /\ UNCHANGED result
    /\ UNCHANGED <<clock, agent_runs, mcp_clients, invocations, input_data, tasks, returned>>

\* A condition of a phase method is false: on to the next statement.
OrchestratorSkip(next) ==
    /\ pc' = next
    /\ UNCHANGED <<clock, agent_runs, mcp_clients, invocations, input_data, result, activities, tasks, returned, raised>>

phase1_anchor_a ==
    /\ pc = "phase1_anchor"
    /\ OrchestratorAwait("resolve_gene", <<input_data.gene_a>>, "gene_a", "phase1_anchor_b")

phase1_anchor_b ==
    /\ pc = "phase1_anchor_b"
    /\ OrchestratorAwait("resolve_gene", <<input_data.gene_b>>, "gene_b", "phase2_enrich")

phase2_enrich_a ==
    /\ pc = "phase2_enrich"
    /\ IF HasUniprot(result.gene_a)
         THEN OrchestratorAwait("enrich_protein", <<result.gene_a.uniprot_id>>,
                                "gene_a_function", "phase2_enrich_b")
         ELSE OrchestratorSkip("phase2_enrich_b")

phase2_enrich_b ==
    /\ pc = "phase2_enrich_b"
    /\ IF HasUniprot(result.gene_b)
         THEN OrchestratorAwait("enrich_protein", <<result.gene_b.uniprot_id>>,
                                "gene_b_function", "phase3_expand")
         ELSE OrchestratorSkip("phase3_expand")

phase3_expand ==
    /\ pc = "phase3_expand"
    /\ OrchestratorAwait("expand_interactions", <<input_data.gene_b>>,
                         "interactions", "phase4_traverse")

phase4_traverse_drugs ==
    /\ pc = "phase4_traverse"
    /\ OrchestratorAwait("find_drugs", <<OrchestratorTarget(input_data)>>,
                         "drugs", "phase4_traverse_trials")

phase4_traverse_trials ==
    /\ pc = "phase4_traverse_trials"
    /\ IF TruthyList(result.drugs)
         THEN OrchestratorAwait("search_trials", <<result.drugs[1].name>>,
                                "trials", "phase5_validate")
         ELSE OrchestratorSkip("phase5_validate")

phase5_validate_sl ==
    /\ pc = "phase5_validate"
    /\ OrchestratorAwait("validate_synthetic_lethality",
                         <<input_data.gene_a, input_data.gene_b>>,
                         "validations", "phase5_validate_drug")

phase5_validate_drug ==
    /\ pc = "phase5_validate_drug"
    /\ IF TruthyList(result.drugs)
         THEN OrchestratorAwait("validate_drug",
                                <<OrchestratorDrugClaim(result.drugs[1])>>,
                                "validations", "return")
         ELSE OrchestratorSkip("return")

\* "return self.result"
OrchestratorReturn ==
    /\ pc = "return"
    /\ returned' = result
    /\ pc' = "done"
    /\ UNCHANGED <<clock, agent_runs, mcp_clients, invocations, input_data, result, activities, tasks, raised>>

OrchestratorNext ==
    \/ phase1_anchor_a \/ phase1_anchor_b
    \/ phase2_enrich_a \/ phase2_enrich_b
    \/ phase3_expand
    \/ phase4_traverse_drugs \/ phase4_traverse_trials
    \/ phase5_validate_sl \/ phase5_validate_drug
    \/ OrchestratorReturn

OrchestratorSpec == OrchestratorInit /\ [][OrchestratorNext]_vars

-----------------------------------------------------------------------------------------------------------------------------------------------------
(* CQ14Workflow.run against the clock: every invocation closes within the    *)
(* schedule_to_close_timeout of its tier, counted from its scheduling; the   *)
(* code of run between two awaits takes no time, so a fan-out is scheduled   *)
(* at the instant the await before it is over. start_workflow sets no        *)
(* execution timeout, so nothing else ends a run.                            *)

Max(a, b) == IF a > b THEN a ELSE b

\* Variant: no schedule_to_close_timeout, only the attempts and their
\* start_to_close_timeout bound an invocation.
CloseSecondsNoBudget(tier) ==
    {QuickSeconds, tier.retry_policy.maximum_attempts * tier.start_to_close_timeout}

\* The seconds from scheduling to close an invocation of the tier may take:
\* a quick one, or one that uses the total budget up.
CloseSeconds(tier) == {QuickSeconds, tier.schedule_to_close_timeout}

\* Invocation i is the last of the pending await still running.
LastRunning(i) ==
    \A k \in DOMAIN tasks : tasks[k] # i => Settled(activities[tasks[k]])

\* Invocation i closes d seconds after its scheduling. When it is the last
\* of the pending await, run resumes and schedules what comes next at once.
Closes(i, d) ==
    LET t == Max(clock.now, clock.scheduled + d)
    IN clock' = [now |-> t,
                 scheduled |-> IF LastRunning(i) THEN t ELSE clock.scheduled]

\* The invocations of one fan-out are independent and run resumes only when
\* all have settled: they are followed in the order of their scheduling.
NextToSettle(i) ==
    /\ activities[i].status = "running"
    /\ \A j \in DOMAIN activities : j < i => Settled(activities[j])

TimedCompletes(i) ==
    /\ NextToSettle(i)
    /\ \E v \in ActivityReturns(activities[i].name, activities[i].args) :
          activities' = [activities EXCEPT ![i].status = "completed", ![i].value = v]
    /\ \E d \in CloseSeconds(ActivityConfig(activities[i].config)) : Closes(i, d)
    /\ UNCHANGED <<agent_runs, mcp_clients, invocations, input_data, result, pc, tasks, returned, raised>>

TimedFails(i) ==
    /\ NextToSettle(i)
    /\ activities' = [activities EXCEPT ![i].status = "failed", ![i].value = ActivityError]
    /\ \E d \in CloseSeconds(ActivityConfig(activities[i].config)) : Closes(i, d)
    /\ UNCHANGED <<agent_runs, mcp_clients, invocations, input_data, result, pc, tasks, returned, raised>>

TimedEnvironment ==
    \E i \in DOMAIN activities : TimedCompletes(i) \/ TimedFails(i)

TimedNext == Coordinator \/ TimedEnvironment

\* The run of the documented example: "TP53", "TYMS".
TimedInit ==
    /\ Init
    /\ input_data = CQ14Input("TP53", "TYMS", "thymidylate synthase", "cancer")

TimedSpec == TimedInit /\ [][TimedNext]_vars

-----
(* Vocabulary of the properties *)

\* The invocations of an activity, by index in the schedule order.
Calls(name) == {i \in DOMAIN activities : activities[i].name = name}

\* The arguments of the calls of an activity, in schedule order.
ArgsOf(name) ==
    LET only == SelectSeq(activities, LAMBDA a : a.name = name)
    IN [k \in DOMAIN only |-> only[k].args]

Failed(i) == activities[i].status = "failed"
Completed(i) == activities[i].status = "completed"

\* How far run has come; 0 when an exception has left it.
Progress ==
    CASE pc = "anchor" -> 1 [] pc = "anchor_gather" -> 2
      [] pc = "enrich" -> 3 [] pc = "enrich_gather" -> 4
      [] pc = "expand" -> 5 [] pc = "expand_await" -> 6
      [] pc = "drugs" -> 7 [] pc = "drugs_await" -> 8
      [] pc = "trials" -> 9 [] pc = "trials_await" -> 10
      [] pc = "validate" -> 11 [] pc = "validate_gather" -> 12
      [] pc = "done" -> 13 [] OTHER -> 0

\* Both Anchor calls have finally failed.
BothAnchorsFailed ==
    /\ Len(activities) >= 2
    /\ Failed(1) /\ Failed(2)

\* C1: the activities are scheduled in the order of their phases, and while an
\* activity is unsettled no activity of a later phase is in the schedule.
C1_PhaseOrder ==
    \A i, j \in DOMAIN activities :
       /\ i < j => PhaseOf(activities[i].name) <= PhaseOf(activities[j].name)
       /\ ~Settled(activities[i]) =>
             PhaseOf(activities[j].name) <= PhaseOf(activities[i].name)

\* A run through all six phases in which an Anchor call failed, seen while
\* Validate calls are still in flight.
C1_Witness ==
    /\ pc = "validate_gather"
    /\ {PhaseOf(activities[i].name) : i \in DOMAIN activities} = 1..6
    /\ \E i \in DOMAIN activities : PhaseOf(activities[i].name) = 1 /\ Failed(i)
    /\ \E i \in DOMAIN activities : ~Settled(activities[i])

\* C2: no activity failure leaves run: run never fails, and when it is done it
\* has returned the document.
C2_FailuresContained ==
    /\ pc # "failed"
    /\ raised = None
    /\ pc = "done" => returned # None /\ returned = json_dumps(result)

\* A finished run with a failed call in every one of the six phases.
C2_Witness ==
    /\ pc = "done"
    /\ \A p \in 1..6 :
          \E i \in DOMAIN activities : PhaseOf(activities[i].name) = p /\ Failed(i)

\* C3 as stated: after both Anchor calls failed nothing of a later phase is
\* scheduled and nothing is returned.
C3_Original ==
    BothAnchorsFailed =>
       /\ \A i \in DOMAIN activities : PhaseOf(activities[i].name) = 1
       /\ returned = None

\* C3, amended: after both Anchor calls failed the run goes on: it never fails,
\* both resolutions stay None, no enrich_protein and no validate_gene call is
\* scheduled, and the finished run has scheduled expand_interactions,
\* find_drugs, search_trials and validate_synthetic_lethality once each and has
\* returned the document with both resolutions null.
C3_AnchorFailureDegrades ==
    BothAnchorsFailed =>
       /\ pc # "failed"
       /\ result.gene_a_resolution = None /\ result.gene_b_resolution = None
       /\ Calls("enrich_protein") = {} /\ Calls("validate_gene") = {}
       /\ pc = "done" =>
             /\ \A n \in {"expand_interactions", "find_drugs", "search_trials",
                          "validate_synthetic_lethality"} :
                   Cardinality(Calls(n)) = 1
             /\ returned # None
             /\ returned.gene_a_resolution = JsonNull
             /\ returned.gene_b_resolution = JsonNull

\* Both Anchor calls failed and the run is done.
C3_Witness == BothAnchorsFailed /\ pc = "done"

\* C4: validate_synthetic_lethality is scheduled exactly once, when Validate
\* fans out, with (gene_a, gene_b), whatever happened upstream; and once the
\* Validate calls have settled, however they ended, run can finish.
C4_SyntheticLethalityAlways ==
    /\ pc # "failed"
    /\ Cardinality(Calls("validate_synthetic_lethality"))
          = (IF Progress >= 12 THEN 1 ELSE 0)
    /\ \A i \in Calls("validate_synthetic_lethality") :
          /\ activities[i].args = <<input_data.gene_a, input_data.gene_b>>
          /\ i = Len(activities)
    /\ (pc = "validate_gather" /\ \A k \in DOMAIN tasks : Settled(activities[tasks[k]]))
          => ENABLED ValidateGather

\* A finished run in which every call failed, the synthetic lethality
\* validation included.
C4_Witness ==
    /\ pc = "done"
    /\ \A i \in DOMAIN activities : Failed(i)

\* C5: every run reaches Done.
C5_ReachesDone == <>(pc = "done")

\* A finished run that went through all six awaits with the largest fan-out,
\* some of its calls having failed.
C5_Witness ==
    /\ pc = "done"
    /\ Len(activities) = 13
    /\ \E i \in DOMAIN activities : Failed(i)

\* C6: once Anchor has scheduled, both resolve_gene calls are in the schedule
\* (gene_a first, gene_b second); until both have settled run stays in Anchor
\* and both resolutions are None; afterwards each resolution is the value of
\* its own call if that call completed and None if it failed.
C6_AnchorFanIn ==
    /\ Progress >= 2 =>
          /\ Len(activities) >= 2
          /\ activities[1].name = "resolve_gene"
          /\ activities[1].args = <<input_data.gene_a>>
          /\ activities[2].name = "resolve_gene"
          /\ activities[2].args = <<input_data.gene_b>>
    /\ Progress \in {1, 2} =>
          result.gene_a_resolution = None /\ result.gene_b_resolution = None
    /\ Progress >= 3 =>
          /\ Settled(activities[1]) /\ Settled(activities[2])
          /\ result.gene_a_resolution =
                (IF Completed(1) THEN activities[1].value ELSE None)
          /\ result.gene_b_resolution =
                (IF Completed(2) THEN activities[2].value ELSE None)
    /\ pc # "failed"

\* Anchor is over, gene A's call failed and gene B's completed.
C6_Witness ==
    /\ pc = "enrich"
    /\ Failed(1) /\ Completed(2)
    /\ result.gene_a_resolution = None
    /\ result.gene_b_resolution # None

\* C7: the enrich_protein calls are exactly those of the genes whose
\* resolve_gene call completed with a uniprot_id that is neither None nor
\* empty, gene A's before gene B's; a gene without one gets no call, and run
\* does not fail.
C7_EnrichOnlyWithUniprot ==
    LET Wanted(i) ==
           Completed(i) /\ activities[i].value.uniprot_id \notin {NoneStr, ""}
        Expected(i) ==
           IF Wanted(i) THEN << <<activities[i].value.uniprot_id>> >> ELSE <<>>
    IN /\ pc # "failed"
       /\ Progress \in {1, 2, 3} => Calls("enrich_protein") = {}
       /\ Progress >= 4 => ArgsOf("enrich_protein") = Expected(1) \o Expected(2)

\* Gene A resolved with an empty uniprot_id, gene B with a real one: Enrich has
\* scheduled one call, gene B's.
C7_Witness ==
    /\ pc = "enrich_gather"
    /\ Completed(1) /\ activities[1].value.uniprot_id = ""
    /\ Completed(2) /\ activities[2].value.uniprot_id = UniprotOf(input_data.gene_b)
    /\ Cardinality(Calls("enrich_protein")) = 1

\* The expand_interactions call has finally failed.
ExpandFailed == \E i \in Calls("expand_interactions") : Failed(i)

\* C8 as stated: after a failed Expand call the document has the empty list.
C8_Original ==
    (pc = "done" /\ ExpandFailed) =>
       returned.gene_b_interactions = JsonArray(<<>>)

\* C8, amended: after a failed Expand call gene_b_interactions stays None and
\* the document has the key gene_b_interactions with the value null.
C8_ExpandFailureIsNull ==
    ExpandFailed =>
       /\ result.gene_b_interactions = None
       /\ pc = "done" =>
             /\ "gene_b_interactions" \in DOMAIN returned
             /\ returned.gene_b_interactions = JsonNull

\* A finished run whose Expand call failed while drugs were found.
C8_Witness ==
    /\ pc = "done"
    /\ ExpandFailed
    /\ Len(result.drugs) > 0

\* C9: expand_interactions, find_drugs and search_trials are each scheduled
\* exactly once, when run comes to them, and Validate fans out, whatever the
\* earlier calls returned; run never fails.
C9_LaterPhasesRun ==
    /\ pc # "failed"
    /\ Cardinality(Calls("expand_interactions")) = (IF Progress >= 6 THEN 1 ELSE 0)
    /\ Cardinality(Calls("find_drugs")) = (IF Progress >= 8 THEN 1 ELSE 0)
    /\ Cardinality(Calls("search_trials")) = (IF Progress >= 10 THEN 1 ELSE 0)
    /\ Progress >= 12 => \E i \in DOMAIN activities : PhaseOf(activities[i].name) = 6

\* A finished run where both genes were unresolved, Expand failed, find_drugs
\* returned no drug and search_trials failed.
C9_Witness ==
    /\ pc = "done"
    /\ BothAnchorsFailed
    /\ ExpandFailed
    /\ \E i \in Calls("find_drugs") : Completed(i) /\ Len(activities[i].value) = 0
    /\ \E i \in Calls("search_trials") : Failed(i)

\* C10: the query of search_trials is target_name when find_drugs failed or
\* returned no drug, and the name of the first drug it returned otherwise; the
\* second argument is the input's condition.
C10_TrialQuery ==
    /\ Progress >= 10 => Calls("search_trials") # {}
    /\ \A i \in Calls("search_trials") :
          LET d == CHOOSE j \in Calls("find_drugs") : TRUE
              found == IF Completed(d) THEN activities[d].value ELSE <<>>
          IN /\ activities[i].args[2] = input_data.condition
             /\ Len(found) = 0 => activities[i].args[1] = input_data.target_name
             /\ Len(found) > 0 => activities[i].args[1] = found[1].name

\* The trial search was scheduled for the first of several drugs found.
C10_Witness ==
    /\ pc = "trials_await"
    /\ Len(result.drugs) >= 2
    /\ \E i \in Calls("search_trials") :
          /\ activities[i].args[1] = result.drugs[1].name
          /\ activities[i].args[1] # input_data.target_name

\* C11: after a failed find_drugs call drugs is the empty list, after a failed
\* search_trials call trials is the empty list, in the result and in the
\* document; run does not fail, and it can go on as soon as the call has failed.
C11_TraverseFailureIsEmptyList ==
    /\ pc # "failed"
    /\ (\E i \in Calls("find_drugs") : Failed(i)) =>
          /\ result.drugs = <<>>
          /\ pc = "drugs_await" => ENABLED DrugsAwait
          /\ Progress >= 10 => Calls("search_trials") # {}
          /\ pc = "done" => returned.drugs = JsonArray(<<>>)
    /\ (\E i \in Calls("search_trials") : Failed(i)) =>
          /\ result.trials = <<>>
          /\ pc = "trials_await" => ENABLED TrialsAwait
          /\ Progress >= 12 => Calls("validate_synthetic_lethality") # {}
          /\ pc = "done" => returned.trials = JsonArray(<<>>)

\* A finished run whose find_drugs and search_trials calls both failed while
\* the Expand call completed.
C11_Witness ==
    /\ pc = "done"
    /\ \E i \in Calls("find_drugs") : Failed(i)
    /\ \E i \in Calls("search_trials") : Failed(i)
    /\ \E i \in Calls("expand_interactions") : Completed(i)

\* The validation activities scheduled so far.
ValidateCalls == {i \in DOMAIN activities : PhaseOf(activities[i].name) = 6}

\* C12 as stated: Validate schedules at most five validation activities.
C12_Original == Cardinality(ValidateCalls) <= 5

\* C12, amended: Validate schedules at most six validation activities: two
\* validate_gene, two validate_mechanism, one validate_trial and one
\* validate_synthetic_lethality at most.
C12_AtMostSixValidations ==
    /\ Cardinality(ValidateCalls) <= 6
    /\ Cardinality(Calls("validate_gene")) <= 2
    /\ Cardinality(Calls("validate_mechanism")) <= 2
    /\ Cardinality(Calls("validate_trial")) <= 1
    /\ Cardinality(Calls("validate_synthetic_lethality")) <= 1

\* Both genes resolved, more than two drugs and a trial found: six validation
\* activities are in flight.
C12_Witness ==
    /\ pc = "validate_gather"
    /\ Len(result.drugs) > 2
    /\ Cardinality(ValidateCalls) = 6

\* The rank of a validation activity in the order of the Validate section.
ValidateRank(name) ==
    CASE name = "validate_gene" -> 1
      [] name = "validate_mechanism" -> 2
      [] name = "validate_trial" -> 3
      [] OTHER -> 4

\* C13: when run is done, validations is the list of the values of the
\* validation activities that completed, in schedule order, the schedule being
\* gene A, gene B, drugs, trial, synthetic lethality; a failed validation has
\* no entry and run has not failed.
C13_ValidationsAreSuccesses ==
    LET scheduled == SelectSeq(activities, LAMBDA a : PhaseOf(a.name) = 6)
        succeeded == SelectSeq(scheduled, LAMBDA a : a.status = "completed")
    IN /\ pc # "failed"
       /\ \A i, j \in DOMAIN scheduled :
             i < j => ValidateRank(scheduled[i].name) <= ValidateRank(scheduled[j].name)
       /\ Cardinality(Calls("validate_gene")) = 2 =>
             /\ scheduled[1].args = <<GeneClaim(input_data.gene_a, result.gene_a_resolution)>>
             /\ scheduled[2].args = <<GeneClaim(input_data.gene_b, result.gene_b_resolution)>>
       /\ pc = "done" =>
             /\ result.validations = [k \in DOMAIN succeeded |-> succeeded[k].value]
             /\ returned.validations = JsonArray(result.validations)
       /\ pc # "done" => result.validations = <<>>

\* A finished run with six validations scheduled of which some failed and
\* some completed.
C13_Witness ==
    /\ pc = "done"
    /\ Cardinality(ValidateCalls) = 6
    /\ Len(result.validations) = 3
    /\ \E i \in Calls("validate_gene") : Failed(i)
    /\ \E i \in Calls("validate_synthetic_lethality") : Completed(i)

-----------------------------------------------------------------------------
(* Properties of the attempts of an invocation (RetrySpec) *)

\* The retry policy and the tier of an invocation.
PolicyOf(inv) == ActivityConfig(inv.config).retry_policy
IsShort(inv) == inv.config = "SHORT_ACTIVITY_CONFIG"
IsLong(inv) == inv.config = "LONG_ACTIVITY_CONFIG"

\* The four error codes of ADR-001 that are never retried.
FourCodes == {"UNRESOLVED_ENTITY", "AMBIGUOUS_QUERY", "ENTITY_NOT_FOUND", "ValidationError"}

\* The last attempt of inv failed with an error that is none of the four codes.
FailedRetryably(inv) ==
    /\ inv.failure \notin FourCodes \cup {"", "ScheduleToCloseTimeout"}
    /\ inv.state \in {"backoff", "failed"}

\* C14: no invocation makes more attempts than maximum_attempts, 3 for a SHORT
\* activity and 5 for a LONG one; every attempt is one execution; when the
\* attempt count has reached the maximum the invocation never waits for a
\* retry and no further attempt can start.
C14_MaxAttempts ==
    \A k \in DOMAIN invocations :
       LET inv == invocations[k]
           most == IF IsShort(inv) THEN 3 ELSE 5
       IN /\ inv.attempt \in 1..most
          /\ Len(inv.runs) = inv.attempt
          /\ inv.attempt >= most =>
                /\ inv.state # "backoff"
                /\ ~ENABLED RetryStarts(k)
          /\ (inv.attempt >= most /\ FailedRetryably(inv)) => inv.state = "failed"

\* A SHORT invocation whose third attempt failed with a retryable error and
\* which has failed for good.
C14_Witness ==
    \E k \in DOMAIN invocations :
       /\ IsShort(invocations[k])
       /\ invocations[k].attempt = 3
       /\ invocations[k].failure = "ConnectionError"
       /\ invocations[k].state = "failed"

\* C15: an attempt that fails with one of the four non-retryable codes ends
\* the invocation under both policies: the invocation has failed, no attempt
\* can follow, and the attempts made are those made before the failure (one
\* if it happened on attempt 1).
C15_NonRetryableStops ==
    \A k \in DOMAIN invocations :
       LET inv == invocations[k]
       IN inv.failure \in FourCodes =>
             /\ inv.state = "failed"
             /\ Len(inv.runs) = inv.attempt
             /\ Len(inv.slept) = inv.attempt - 1
             /\ ~ENABLED RetryStarts(k)
             /\ ~ENABLED AttemptReturns(k)
             /\ ~ENABLED AttemptRaises(k)
             /\ ~ENABLED AttemptTimesOut(k)

\* A LONG invocation that failed with a non-retryable code on attempt 1, four
\* attempts of its policy unused.
C15_Witness ==
    \E k \in DOMAIN invocations :
       /\ IsLong(invocations[k])
       /\ invocations[k].failure = "ENTITY_NOT_FOUND"
       /\ invocations[k].attempt = 1
       /\ Len(invocations[k].runs) = 1
       /\ invocations[k].state = "failed"

\* C16: a failure that is none of the four codes, a start_to_close timeout
\* (180 s SHORT, 300 s LONG) included, is retried: the invocation waits for
\* its next attempt, which can start, unless the attempts are used up or the
\* schedule_to_close budget ends before the next attempt would start.
C16_RetryableIsRetried ==
    \A k \in DOMAIN invocations :
       LET inv == invocations[k]
           most == IF IsShort(inv) THEN 3 ELSE 5
           budget == IF IsShort(inv) THEN 600 ELSE 1200
       IN /\ (FailedRetryably(inv) /\ inv.state = "failed") =>
                \/ inv.attempt >= most
                \/ inv.elapsed + BackoffInterval(PolicyOf(inv), inv.attempt) > budget
          /\ inv.state = "backoff" =>
                /\ FailedRetryably(inv)
                /\ ENABLED RetryStarts(k)
          /\ (FailedRetryably(inv) /\ inv.failure = "TimeoutError") =>
                inv.ran = IF IsShort(inv) THEN 180 ELSE 300

\* An invocation whose first attempt timed out and whose second attempt runs.
C16_Witness ==
    \E k \in DOMAIN invocations :
       /\ invocations[k].failure = "TimeoutError"
       /\ invocations[k].attempt = 2
       /\ invocations[k].state = "running"
       /\ invocations[k].elapsed = 182

\* C17: the backoff intervals of SHORT_ACTIVITY_RETRY after attempts 1, 2, 3
\* are 2 s, 4 s, 8 s, none above the 60 s cap; a SHORT invocation executes at
\* most 3 times and sleeps the first intervals of that sequence in order.
C17_ShortBackoff ==
    /\ [n \in 1..3 |-> BackoffInterval(SHORT_ACTIVITY_RETRY, n)] = <<2, 4, 8>>
    /\ \A n \in 1..3 : BackoffInterval(SHORT_ACTIVITY_RETRY, n) <= 60
    /\ \A k \in DOMAIN invocations :
          LET inv == invocations[k]
          IN IsShort(inv) =>
                /\ Len(inv.runs) <= 3
                /\ Len(inv.slept) <= 2
                /\ inv.slept = SubSeq(<<2, 4, 8>>, 1, Len(inv.slept))

\* A SHORT invocation that slept 2 s and 4 s and completed on its third call.
C17_Witness ==
    \E k \in DOMAIN invocations :
       /\ IsShort(invocations[k])
       /\ invocations[k].slept = <<2, 4>>
       /\ Len(invocations[k].runs) = 3
       /\ invocations[k].state = "completed"

\* The sum of a sequence of numbers.
RECURSIVE Sum(_)
Sum(seq) == IF seq = <<>> THEN 0 ELSE Head(seq) + Sum(Tail(seq))

\* C18: the attempts and backoff sleeps of an invocation stay within its
\* schedule_to_close budget, 600 s SHORT and 1200 s LONG: no attempt starts or
\* runs past it, an invocation that runs into it has failed, whatever is left
\* of maximum_attempts, and nothing follows.
C18_TotalBudget ==
    \A k \in DOMAIN invocations :
       LET inv == invocations[k]
           budget == IF IsShort(inv) THEN 600 ELSE 1200
       IN /\ inv.elapsed <= budget
          /\ Sum(inv.slept) <= inv.elapsed
          /\ inv.state = "completed" => inv.elapsed < budget
          /\ inv.failure = "ScheduleToCloseTimeout" =>
                /\ inv.state = "failed"
                /\ inv.elapsed = budget
                /\ ~ENABLED RetryStarts(k)

\* A LONG invocation that ran into its budget during its fourth attempt.
C18_Witness ==
    \E k \in DOMAIN invocations :
       /\ IsLong(invocations[k])
       /\ invocations[k].failure = "ScheduleToCloseTimeout"
       /\ invocations[k].state = "failed"
       /\ invocations[k].attempt < 5

-----------------------------------------------------------------------------
(* Properties of the returned document *)

\* The eight fields of the result.
ResultKeys ==
    {"gene_a_resolution", "gene_b_resolution", "gene_a_protein", "gene_b_protein",
     "gene_b_interactions", "drugs", "trials", "validations"}

\* C20: the document run returns has the eight result keys whatever the
\* activities did: a field that was never assigned is there as null, or as []
\* for drugs, trials and validations, and an assigned field as its value.
C20_AllKeysPresent ==
    pc = "done" =>
       /\ DOMAIN returned = ResultKeys
       /\ \A key \in ResultKeys :
             IF key \in {"drugs", "trials", "validations"}
             THEN /\ returned[key].json = "array"
                  /\ returned[key].items = result[key]
                  /\ Len(result[key]) = 0 => returned[key] = JsonArray(<<>>)
             ELSE IF result[key] = None
             THEN returned[key] = JsonNull
             ELSE /\ returned[key].json = "object"
                  /\ returned[key].members = result[key]

\* A finished run in which every activity failed: no field was ever assigned.
C20_Witness ==
    /\ pc = "done"
    /\ \A i \in DOMAIN activities : Failed(i)
    /\ result = CQ14Result
    /\ returned.gene_b_protein = JsonNull
    /\ returned.trials = JsonArray(<<>>)

-----------------------------------------------------------------------------
(* Properties of the result while it is filled *)

\* The activity whose return value a field of the result takes.
ProducerOf(fld) ==
    CASE fld \in {"gene_a_resolution", "gene_b_resolution"} -> "resolve_gene"
      [] fld \in {"gene_a_protein", "gene_b_protein"} -> "enrich_protein"
      [] fld = "gene_b_interactions" -> "expand_interactions"
      [] fld = "drugs" -> "find_drugs"
      [] OTHER -> "search_trials"

\* The field holds what one completed call of its activity returned, whole.
HoldsReturnValue(fld) ==
    \E i \in Calls(ProducerOf(fld)) :
       /\ Completed(i)
       /\ result[fld] = activities[i].value
       /\ result[fld] \in ActivityReturns(activities[i].name, activities[i].args)

\* C21: at every point of a run every field of the result is its default
\* (None, or the empty list) or the whole value one completed call returned;
\* validations holds values of completed validation calls only; no field
\* holds an exception object.
C21_FieldsWholeOrAbsent ==
    /\ \A fld \in {"gene_a_resolution", "gene_b_resolution", "gene_a_protein",
                   "gene_b_protein", "gene_b_interactions"} :
          /\ result[fld] # ActivityError
          /\ result[fld] = None \/ HoldsReturnValue(fld)
    /\ \A fld \in {"drugs", "trials"} :
          Len(result[fld]) = 0 \/ HoldsReturnValue(fld)
    /\ \A k \in DOMAIN result.validations :
          /\ ~IsException(result.validations[k])
          /\ \E i \in ValidateCalls :
                Completed(i) /\ result.validations[k] = activities[i].value

\* A run past Enrich in which gene A resolved and was enriched while the calls
\* for gene B failed: two fields populated, the others at their defaults.
C21_Witness ==
    /\ pc = "trials_await"
    /\ Len(activities) >= 3
    /\ Completed(1) /\ Failed(2)
    /\ \E i \in Calls("enrich_protein") : Completed(i)
    /\ result.gene_a_resolution # None
    /\ result.gene_a_protein # None
    /\ result.gene_b_resolution = None
    /\ \E i \in Calls("find_drugs") : Failed(i)

\* The places of run where the result of an await is assigned.
FanInPoints ==
    {"anchor_gather", "enrich_gather", "expand_await", "drugs_await",
     "trials_await", "validate_gather"}

\* C22: a step that changes the result is a step of run at a fan-in: every
\* activity scheduled so far has settled, the awaited tasks are consumed, and
\* the step schedules nothing; the calls of the next phase come later.
C22_WritesBetweenBarriers ==
    [][result' # result =>
         /\ pc \in FanInPoints
         /\ pc' \notin FanInPoints
         /\ \A i \in DOMAIN activities : Settled(activities[i])
         /\ activities' = activities
         /\ tasks # <<>> /\ tasks' = <<>>]_vars

\* Right after the Anchor fan-in wrote gene B's resolution: both calls have
\* settled and Enrich has not scheduled yet.
C22_Witness ==
    /\ pc = "enrich"
    /\ Len(activities) = 2
    /\ Failed(1) /\ Completed(2)
    /\ result.gene_b_resolution = activities[2].value

\* The value an invocation contributes: its return value, or absent.
Outcome(i) == IF Completed(i) THEN activities[i].value ELSE None

\* The k-th call of an activity in schedule order, 0 if there is none.
Nth(name, k) ==
    LET at == SelectSeq([i \in DOMAIN activities |-> i],
                        LAMBDA i : activities[i].name = name)
    IN IF k <= Len(at) THEN at[k] ELSE 0

\* C23: the document is a function of the outcomes of the calls by their
\* position in the schedule, whatever order they settled in: the resolutions
\* are the outcomes of the first and second resolve_gene call, the protein
\* fields those of the first and second enrich_protein call, validations the
\* values of the completed validation calls in schedule order; and run leaves
\* a fan-in only when every awaited call has settled.
C23_CompletionOrderFree ==
    /\ [](pc = "done" =>
            /\ \A i \in DOMAIN activities : Settled(activities[i])
            /\ result.gene_a_resolution = Outcome(1)
            /\ result.gene_b_resolution = Outcome(2)
            /\ result.gene_a_protein =
                  IF Nth("enrich_protein", 1) = 0 THEN None
                  ELSE Outcome(Nth("enrich_protein", 1))
            /\ result.gene_b_protein =
                  IF Nth("enrich_protein", 2) = 0 THEN None
                  ELSE Outcome(Nth("enrich_protein", 2))
            /\ LET done == SelectSeq(activities,
                                     LAMBDA a : PhaseOf(a.name) = 6
                                                  /\ a.status = "completed")
               IN result.validations = [k \in DOMAIN done |-> done[k].value]
            /\ returned = json_dumps(result))
    /\ [][(pc \in FanInPoints /\ pc' # pc) =>
            \A k \in DOMAIN tasks : Settled(activities[tasks[k]])]_vars

\* A finished run in which the first Anchor call failed and the second
\* completed, the one Enrich call completed, and validations failed and
\* completed.
C23_Witness ==
    /\ pc = "done"
    /\ Failed(1) /\ Completed(2)
    /\ Nth("enrich_protein", 1) # 0
    /\ Completed(Nth("enrich_protein", 1))
    /\ \E i \in ValidateCalls : Failed(i)
    /\ \E i \in ValidateCalls : Completed(i)

-----------------------------------------------------------------------------
(* Properties of the gateway clients (AgentSpec) *)

\* Run c is inside its "async with mcp:" block.
InsideWith(c) == agent_runs[c].pc \in {"agent", "exit"}

\* Run c is over, by return or by exception.
RunOver(c) == agent_runs[c].pc \in {"returned", "raised"}

\* C24: every call of AgentRunner.run has a client of its own, made by that
\* call: no two calls have the same client; a client is open only while its
\* call is inside the with block, and the call finds it open there; once the
\* call has returned or raised its client is closed.
C24_ClientPerCall ==
    /\ Len(mcp_clients) = Cardinality({c \in DOMAIN agent_runs : agent_runs[c].mcp # 0})
    /\ \A c \in DOMAIN agent_runs :
          LET r == agent_runs[c]
          IN /\ r.mcp = 0 <=> r.pc = "create"
             /\ r.mcp # 0 =>
                   /\ r.mcp \in DOMAIN mcp_clients
                   /\ \A d \in DOMAIN agent_runs \ {c} : agent_runs[d].mcp # r.mcp
                   /\ mcp_clients[r.mcp].state = "open" <=> InsideWith(c)
                   /\ RunOver(c) => mcp_clients[r.mcp].state = "closed"

\* Three calls: one returned and one raised, their clients closed, while the
\* third is inside its with block with its own client open.
C24_Witness ==
    /\ Len(agent_runs) = 3
    /\ \E c, d, e \in DOMAIN agent_runs :
          /\ agent_runs[c].pc = "returned"
          /\ agent_runs[d].pc = "raised" /\ agent_runs[d].outcome = "exception"
          /\ mcp_clients[agent_runs[c].mcp].state = "closed"
          /\ mcp_clients[agent_runs[d].mcp].state = "closed"
          /\ agent_runs[e].pc = "agent"
          /\ mcp_clients[agent_runs[e].mcp].state = "open"

\* Every phase has left something in the result.
AllPhasesPopulated ==
    /\ \A fld \in {"gene_a_resolution", "gene_b_resolution", "gene_a_protein",
                   "gene_b_protein", "gene_b_interactions"} : result[fld] # None
    /\ \A fld \in ListFields : Len(result[fld]) > 0

ProteinOfResolution(protein, resolution) ==
    protein # None =>
       /\ HasUniprot(resolution)
       /\ protein \in enrich_protein(resolution.uniprot_id)

\* C26: gene_a_protein is nothing but the result of the enrich_protein call
\* made for gene A's uniprot_id, and gene_b_protein for gene B's; when only
\* gene B has a uniprot_id and its call completed, gene_a_protein stays None
\* and gene_b_protein is that call's value.
C26_ProteinOfOwnGene ==
    /\ ProteinOfResolution(result.gene_a_protein, result.gene_a_resolution)
    /\ ProteinOfResolution(result.gene_b_protein, result.gene_b_resolution)
    /\ (/\ Progress > 4
        /\ ~HasUniprot(result.gene_a_resolution)
        /\ HasUniprot(result.gene_b_resolution)
        /\ Completed(Nth("enrich_protein", 1))) =>
          /\ result.gene_a_protein = None
          /\ result.gene_b_protein = activities[Nth("enrich_protein", 1)].value

-----------------------------------------------------------------------------
(* Properties of what Validate schedules *)

\* Validate has scheduled its calls.
ValidateScheduled == pc \in {"validate_gather", "done"}

\* The validate_gene calls made for a gene: those whose claim is the claim of
\* some resolution of that gene.
GeneValidations(gene) ==
    {i \in Calls("validate_gene") :
        \E v \in resolve_gene(gene) : activities[i].args = <<GeneClaim(gene, v)>>}

\* C27: Validate schedules a validate_gene call for gene A exactly when the
\* resolve_gene call for gene A completed, for gene B exactly when the call
\* for gene B completed, each with the claim made of that resolution, and no
\* other validate_gene call; before Validate there is none.
C27_GeneValidatedIffResolved ==
    /\ ~ValidateScheduled => Calls("validate_gene") = {}
    /\ ValidateScheduled =>
          /\ GeneValidations(input_data.gene_a) # {} <=> Completed(1)
          /\ GeneValidations(input_data.gene_b) # {} <=> Completed(2)
          /\ Cardinality(GeneValidations(input_data.gene_a)) <= 1
          /\ Cardinality(GeneValidations(input_data.gene_b)) <= 1
          /\ Calls("validate_gene") =
                GeneValidations(input_data.gene_a) \cup GeneValidations(input_data.gene_b)
          /\ \A i \in GeneValidations(input_data.gene_a) :
                activities[i].args = <<GeneClaim(input_data.gene_a, activities[1].value)>>
          /\ \A i \in GeneValidations(input_data.gene_b) :
                activities[i].args = <<GeneClaim(input_data.gene_b, activities[2].value)>>

\* Validate under way after gene A resolved without a uniprot_id and the call
\* for gene B failed: one validate_gene call, for gene A.
C27_Witness ==
    /\ pc = "validate_gather"
    /\ Completed(1) /\ Failed(2)
    /\ ~HasUniprot(result.gene_a_resolution)
    /\ Cardinality(Calls("validate_gene")) = 1
    /\ GeneValidations(input_data.gene_a) # {}

\* C28: Validate schedules min(2, len(drugs)) validate_mechanism calls: the
\* claim of the first drug, then the claim of the second, and none when the
\* list is empty.
C28_TopTwoDrugs ==
    ValidateScheduled =>
       /\ Cardinality(Calls("validate_mechanism")) =
             (IF Len(result.drugs) < 2 THEN Len(result.drugs) ELSE 2)
       /\ \A k \in DOMAIN ArgsOf("validate_mechanism") :
             ArgsOf("validate_mechanism")[k] = <<DrugClaim(result.drugs[k])>>
       /\ Len(result.drugs) = 0 => Calls("validate_mechanism") = {}

\* Three drugs found: two validate_mechanism calls, for two different claims.
C28_Witness ==
    /\ pc = "validate_gather"
    /\ Len(result.drugs) = 3
    /\ Len(ArgsOf("validate_mechanism")) = 2
    /\ ArgsOf("validate_mechanism")[1] # ArgsOf("validate_mechanism")[2]

\* C29: Validate schedules validate_trial exactly when trials is not empty,
\* once, with the nct_id of the first trial of the list.
C29_FirstTrialValidated ==
    /\ ~ValidateScheduled => Calls("validate_trial") = {}
    /\ ValidateScheduled =>
          ArgsOf("validate_trial") =
             IF Len(result.trials) > 0 THEN << <<result.trials[1].nct_id>> >>
             ELSE <<>>

\* Two trials with different identifiers found: one validate_trial call.
C29_Witness ==
    /\ pc = "validate_gather"
    /\ Len(result.trials) = 2
    /\ result.trials[1].nct_id # result.trials[2].nct_id
    /\ Cardinality(Calls("validate_trial")) = 1

-----------------------------------------------------------------------------
(* Properties of the tiers *)

\* The activities of the lookups and validations, and those of the searches.
ShortActivities ==
    {"resolve_gene", "enrich_protein", "validate_gene", "validate_mechanism",
     "validate_trial", "validate_synthetic_lethality"}
LongActivities == {"expand_interactions", "find_drugs", "search_trials"}

\* C30: every scheduled activity has the tier of its category and nothing
\* else: the lookups and validations 180 s per attempt, 600 s in all and 3
\* attempts, the searches 300 s, 1200 s and 5 attempts.
C30_TierOfCategory ==
    \A i \in DOMAIN activities :
       LET a == activities[i]
           tier == ActivityConfig(a.config)
       IN /\ a.name \in ShortActivities \cup LongActivities
          /\ a.config \in {"SHORT_ACTIVITY_CONFIG", "LONG_ACTIVITY_CONFIG"}
          /\ a.name \in ShortActivities <=> a.config = "SHORT_ACTIVITY_CONFIG"
          /\ a.name \in ShortActivities =>
                /\ tier.start_to_close_timeout = 180
                /\ tier.schedule_to_close_timeout = 600
                /\ tier.retry_policy.maximum_attempts = 3
                /\ tier.retry_policy = SHORT_ACTIVITY_RETRY
          /\ a.name \in LongActivities =>
                /\ tier.start_to_close_timeout = 300
                /\ tier.schedule_to_close_timeout = 1200
                /\ tier.retry_policy.maximum_attempts = 5
                /\ tier.retry_policy = LONG_ACTIVITY_RETRY

\* A finished run that scheduled every one of the nine activities.
C30_Witness ==
    /\ pc = "done"
    /\ {activities[i].name : i \in DOMAIN activities} = ShortActivities \cup LongActivities

-----------------------------------------------------------------------------
(* Properties of the standalone orchestrator (OrchestratorSpec) *)

\* C31: a failed agent call of CQ14Orchestrator.run degrades its phase only:
\* no exception leaves run, and once run is at its return every phase method
\* was gone through, phase5_validate included.
C31_OrchestratorDegrades ==
    /\ pc # "failed"
    /\ raised = None
    /\ (\E i \in DOMAIN activities : Failed(i)) =>
          (pc \in {"return", "done"} => Calls("validate_synthetic_lethality") # {})

\* The workflow's result fields for the orchestrator's.
Corresponding(res) ==
    [gene_a_resolution |-> res.gene_a, gene_b_resolution |-> res.gene_b,
     gene_a_protein |-> res.gene_a_function, gene_b_protein |-> res.gene_b_function,
     gene_b_interactions |-> res.interactions,
     drugs |-> res.drugs, trials |-> res.trials, validations |-> res.validations]

\* The activity that wraps an agent function, and the arguments the agent
\* gets with its defaults filled in.
ActivityOf(name) == IF name = "validate_drug" THEN "validate_mechanism" ELSE name
EffectiveArgs(a) == IF a.name = "search_trials" THEN a.args \o <<"cancer">> ELSE a.args

\* The calls an execution made: what was called, and with what.
CallsMade == { [name |-> ActivityOf(activities[i].name),
                args |-> EffectiveArgs(activities[i])] : i \in DOMAIN activities }

\* The calls CQ14Workflow.run schedules when the steps have the outcomes res.
WorkflowSchedule(res, inp) ==
    AnchorTasks(inp) \o EnrichTasks(res)
      \o << execute_activity("expand_interactions", <<inp.gene_b>>, "LONG_ACTIVITY_CONFIG"),
            execute_activity("find_drugs", <<inp.target_name>>, "LONG_ACTIVITY_CONFIG"),
            execute_activity("search_trials", <<drug_name(res, inp), inp.condition>>,
                             "LONG_ACTIVITY_CONFIG") >>
      \o ValidationTasks(res, inp)

WorkflowCalls(res, inp) ==
    { [name |-> WorkflowSchedule(res, inp)[k].name,
       args |-> WorkflowSchedule(res, inp)[k].args] :
         k \in DOMAIN WorkflowSchedule(res, inp) }

\* C32: for the default input and the same step outcomes the orchestrator
\* goes as far as the workflow, which always returns, and when it returns it
\* has made the calls the workflow schedules, with the same arguments, and
\* holds as many validations as the workflow's Validate fan-out gives.
C32_SameProtocol ==
    input_data = CQ14Input("TP53", "TYMS", "thymidylate synthase", "cancer") =>
       /\ pc # "failed"
       /\ pc = "done" =>
             /\ CallsMade = WorkflowCalls(Corresponding(result), input_data)
             /\ Len(result.validations) =
                   Len(ValidationTasks(Corresponding(result), input_data))

-----------------------------------------------------------------------------
(* Properties of the budgets against the retries (RetrySpec) *)

\* The seconds maximum_attempts attempts of a tier take when each runs into
\* its start_to_close_timeout, the backoff sleeps between them included.
FullRetrySeconds(tier) ==
    LET policy == tier.retry_policy
    IN policy.maximum_attempts * tier.start_to_close_timeout
         + Sum([n \in 1..(policy.maximum_attempts - 1) |-> BackoffInterval(policy, n)])

\* The seconds the attempts of inv that are over have run, sleeps left out.
RanSeconds(inv) == inv.elapsed - Sum(inv.slept)

\* C33: under the SHORT tier three attempts of 180 s and the sleeps between
\* them fit in the 600 s budget: a SHORT invocation never ends by the budget,
\* every attempt it starts has its full 180 s left, and when it has failed
\* for good with a retryable error it has made all 3 attempts.
C33_ShortBudgetCoversRetries ==
    /\ FullRetrySeconds(SHORT_ACTIVITY_CONFIG)
          <= SHORT_ACTIVITY_CONFIG.schedule_to_close_timeout
    /\ \A k \in DOMAIN invocations :
          LET inv == invocations[k]
          IN IsShort(inv) =>
                /\ inv.failure # "ScheduleToCloseTimeout"
                /\ inv.state = "running" => inv.elapsed + 180 <= 600
                /\ (FailedRetryably(inv) /\ inv.state = "failed") => inv.attempt = 3
                /\ ~ENABLED BudgetExpires(k)

\* A SHORT invocation whose three attempts each ran into the 180 s timeout:
\* it has failed after 546 s.
C33_Witness ==
    \E k \in DOMAIN invocations :
       /\ IsShort(invocations[k])
       /\ invocations[k].state = "failed"
       /\ invocations[k].failure = "TimeoutError"
       /\ invocations[k].attempt = 3
       /\ invocations[k].elapsed = 546

\* C34 as stated: a LONG invocation never ends by its budget, and when it has
\* failed for good with a retryable error it has made all 5 attempts.
C34_Original ==
    \A k \in DOMAIN invocations :
       LET inv == invocations[k]
       IN IsLong(inv) =>
             /\ inv.failure # "ScheduleToCloseTimeout"
             /\ (FailedRetryably(inv) /\ inv.state = "failed") => inv.attempt = 5

\* C34, amended: under the LONG tier five attempts of 300 s and the sleeps
\* between them take more than the 1200 s budget; a LONG invocation whose
\* attempts all run into the timeout starts 4 attempts at most; one that has
\* failed for good with a retryable error before its fifth attempt has run
\* into the budget or could not start its retry within it.
C34_LongBudgetCutsRetries ==
    /\ FullRetrySeconds(LONG_ACTIVITY_CONFIG)
          > LONG_ACTIVITY_CONFIG.schedule_to_close_timeout
    /\ \A k \in DOMAIN invocations :
          LET inv == invocations[k]
          IN IsLong(inv) =>
                /\ (inv.state = "running" /\ RanSeconds(inv) = (inv.attempt - 1) * 300) =>
                      inv.attempt <= 4
                /\ (inv.state = "failed" /\ inv.attempt < 5
                      /\ inv.failure \notin FourCodes) =>
                      \/ inv.failure = "ScheduleToCloseTimeout"
                      \/ inv.elapsed + BackoffInterval(PolicyOf(inv), inv.attempt) > 1200

\* A LONG invocation after three attempts of 300 s: its fourth attempt began
\* at 935 s and the budget ended it at 1200 s.
C34_Witness ==
    \E k \in DOMAIN invocations :
       /\ IsLong(invocations[k])
       /\ invocations[k].state = "failed"
       /\ invocations[k].failure = "ScheduleToCloseTimeout"
       /\ invocations[k].attempt = 4
       /\ invocations[k].slept = <<5, 10, 20>>
       /\ invocations[k].ran = 265

\* C38: the sleep before attempt n+1 is min(maximum_interval,
\* initial_interval * 2^(n-1)): 2 s, 4 s under SHORT and 5 s, 10 s, 20 s, 40 s
\* under LONG are all the sleeps there can be, each longer than the one
\* before and below its cap of 60 s resp. 180 s.
C38_BackoffBelowCap ==
    /\ [n \in 1..2 |-> BackoffInterval(SHORT_ACTIVITY_RETRY, n)] = <<2, 4>>
    /\ [n \in 1..4 |-> BackoffInterval(LONG_ACTIVITY_RETRY, n)] = <<5, 10, 20, 40>>
    /\ \A k \in DOMAIN invocations :
          LET inv == invocations[k]
              all == IF IsShort(inv) THEN <<2, 4>> ELSE <<5, 10, 20, 40>>
              cap == IF IsShort(inv) THEN 60 ELSE 180
          IN /\ Len(inv.slept) <= Len(all)
             /\ inv.slept = SubSeq(all, 1, Len(inv.slept))
             /\ \A n \in DOMAIN inv.slept :
                   /\ inv.slept[n] < cap
                   /\ n > 1 => inv.slept[n] = 2 * inv.slept[n - 1]

\* A LONG invocation on its fifth attempt: it slept 5, 10, 20 and 40 s.
C38_Witness ==
    \E k \in DOMAIN invocations :
       /\ IsLong(invocations[k])
       /\ invocations[k].attempt = 5
       /\ invocations[k].slept = <<5, 10, 20, 40>>

-----------------------------------------------------------------------------
(* Properties of the result's fields and of the number of invocations (Spec) *)

\* The value of pc at which run assigns the field: the fan-in of its phase.
AssignedAt(fld) ==
    CASE fld \in {"gene_a_resolution", "gene_b_resolution"} -> "anchor_gather"
      [] fld \in {"gene_a_protein", "gene_b_protein"} -> "enrich_gather"
      [] fld = "gene_b_interactions" -> "expand_await"
      [] fld = "drugs" -> "drugs_await"
      [] fld = "trials" -> "trials_await"
      [] fld = "validations" -> "validate_gather"

\* The field still has the value CQ14Result() gave it.
AtDefault(fld) ==
    IF fld \in ListFields THEN Len(result[fld]) = 0 ELSE result[fld] = None

\* C36: a field of the result changes only in the step that ends the phase
\* owning it, only from its default, and run passes each such step once: it
\* never goes back to a step it has left.
C36_FieldsAssignedOnceByOwner ==
    [][/\ \A fld \in DOMAIN result :
             result'[fld] # result[fld] =>
                /\ pc = AssignedAt(fld)
                /\ AtDefault(fld)
       /\ pc' # pc => (Progress' > Progress \/ pc' = "failed")]_vars

\* Phase 5 is under way with every field of the phases before it assigned.
C36_Witness ==
    /\ pc = "validate_gather"
    /\ \A fld \in {"gene_a_resolution", "gene_b_resolution", "gene_a_protein",
                   "gene_b_protein", "gene_b_interactions"} : result[fld] # None
    /\ Len(result.drugs) > 0
    /\ Len(result.trials) > 0
    /\ Len(result.validations) = 0

\* The attempts Temporal may make in all for the invocations scheduled.
AttemptsAllowed ==
    Sum([i \in DOMAIN activities |->
           ActivityConfig(activities[i].config).retry_policy.maximum_attempts])

\* C37: a run schedules 2 resolve_gene, at most 2 enrich_protein, one
\* expand_interactions, one find_drugs, one search_trials and 1 to 6
\* validators: 13 invocations at most, 6 at least once it is done, and at
\* most 45 attempts under their retry policies.
C37_InvocationCount ==
    /\ Len(activities) <= 13
    /\ AttemptsAllowed <= 45
    /\ Cardinality(Calls("resolve_gene")) = (IF Progress >= 2 THEN 2 ELSE 0)
    /\ Cardinality(Calls("enrich_protein")) <= 2
    /\ Cardinality(Calls("expand_interactions")) = (IF Progress >= 6 THEN 1 ELSE 0)
    /\ Cardinality(Calls("find_drugs")) = (IF Progress >= 8 THEN 1 ELSE 0)
    /\ Cardinality(Calls("search_trials")) = (IF Progress >= 10 THEN 1 ELSE 0)
    /\ Cardinality(ValidateCalls) <= 6
    /\ Progress >= 12 => Cardinality(ValidateCalls) >= 1
    /\ Progress < 12 => ValidateCalls = {}
    /\ pc = "done" => Len(activities) >= 6

\* A finished run that scheduled 13 invocations, 45 attempts allowed.
C37_Witness ==
    /\ pc = "done"
    /\ Len(activities) = 13
    /\ AttemptsAllowed = 45

-----------------------------------------------------------------------------
(* Property of the duration of a run (TimedSpec) *)

\* The total budget of the invocations of each phase, in the order of run.
PhaseBudgets ==
    << SHORT_ACTIVITY_CONFIG.schedule_to_close_timeout,
       SHORT_ACTIVITY_CONFIG.schedule_to_close_timeout,
       LONG_ACTIVITY_CONFIG.schedule_to_close_timeout,
       LONG_ACTIVITY_CONFIG.schedule_to_close_timeout,
       LONG_ACTIVITY_CONFIG.schedule_to_close_timeout,
       SHORT_ACTIVITY_CONFIG.schedule_to_close_timeout >>

\* The phases that are over when run stands at pc.
PhasesOver == IF Progress = 13 THEN 6 ELSE (Max(Progress, 1) - 1) \div 2

\* C35: the budgets of the six phases add up to 90 min; at every point of a
\* run the clock is within the budgets of the phases begun so far, so a run
\* that is done took 90 min at most; and until it is done a run can go on.
C35_RunWithin90Minutes ==
    /\ Sum(PhaseBudgets) = 90 * 60
    /\ clock.scheduled <= clock.now
    /\ (\E k \in DOMAIN tasks : ~Settled(activities[tasks[k]])) =>
          clock.scheduled <= Sum(SubSeq(PhaseBudgets, 1, PhasesOver))
    /\ clock.now <= Sum(SubSeq(PhaseBudgets, 1, Min(PhasesOver + 1, 6)))
    /\ clock.now <= 90 * 60
    /\ pc # "failed"
    /\ pc # "done" => ENABLED TimedNext

\* A finished run every phase of which used its total budget up.
C35_Witness ==
    /\ pc = "done"
    /\ clock.now = 90 * 60
    /\ Cardinality(Calls("enrich_protein")) > 0

====
